---------------------------- MODULE Spec2Model ----------------------------
(***************************************************************************)
(* A model of threebody.py: the State class (body generator and the        *)
(* force / integration engine), the renderer and the interaction loop of   *)
(* run_simulation.                                                         *)
(*                                                                         *)
(* Numbers.  The program computes with Python floats and pygame Vector2    *)
(* (doubles).  Here a float is a fixed-point integer counting thousandths: *)
(* the float v is the integer v * Unit, and every product, quotient and    *)
(* square root is rounded toward zero to that resolution, as the program's *)
(* operations are rounded to the resolution of a double.  The gravitation  *)
(* factor, a small number, is kept in millionths (Unit * Unit).  Unit is   *)
(* the resolution of the program's own time step (milliseconds / 1000).    *)
(* The operators below split their operands so that no intermediate value  *)
(* leaves the range of 32-bit integers.                                    *)
(***************************************************************************)
EXTENDS Integers, Sequences, FiniteSets, TLC

VARIABLES
    pc,                 \* position of run_simulation
    number_of_stars,    \* the argument of run_simulation
    state,              \* the State object: << >> before construction, else << object >>
    running,
    paused,
    dt_in_s,
    scale_factor,
    screen,             \* the circles the last display.flip() showed
    iterations,         \* event batches polled so far (loop iterations begun)
    handled,            \* events of the current batch handled so far
    zooms,              \* zoom key presses handled so far
    resets,             \* R key presses handled so far
    quit_seen,          \* a QUIT event or the Q key has been processed
    quit_iteration,     \* the iteration in which that happened first (0: none)
    updates_after_quit, \* State.update calls since then
    poll,               \* the event just handled and the loop variables it met
    frame,              \* the last frame step: its dt, whether paused, the State and screen it met
    born,               \* the State as its constructor returned it
    reference           \* an engine running the documented step order from born

vars == << pc, number_of_stars, state, running, paused, dt_in_s, scale_factor,
           screen, iterations, handled, zooms, resets, quit_seen,
           quit_iteration, updates_after_quit, poll, frame, born, reference >>

---------------------------------------------------------------------------
(* Program constants *)

SCREEN_WIDTH == 1280
SCREEN_HEIGHT == 720
GRAVITATIONAL_COEFFICIENT == 900
DEFAULT_NUMBER_OF_STARS == 3
MIN_VISIBLE_SIZE == 3
MS_PER_S == 1000
AA_LIMIT == 100

(* Bounds of the model *)

MaxIterations == 3
MaxBatch == 2
MaxZooms == 1
MaxResets == 1

---------------------------------------------------------------------------
(* Fixed-point arithmetic *)

Unit == MS_PER_S

Abs(a) == IF a < 0 THEN -a ELSE a
Sgn(a) == IF a < 0 THEN -1 ELSE IF a > 0 THEN 1 ELSE 0
Max2(a, b) == IF a >= b THEN a ELSE b
Min2(a, b) == IF a <= b THEN a ELSE b

\* the float of an integer
F(k) == k * Unit

\* |a| * |b| / Unit, rounded down, for a, b >= 0
MulMag(a, b) ==
    LET a1 == a \div Unit  a0 == a % Unit
        b1 == b \div Unit  b0 == b % Unit
    IN a1 * b1 * Unit + a1 * b0 + a0 * b1 + ((a0 * b0) \div Unit)

\* float product a * b
FMul(a, b) == Sgn(a) * Sgn(b) * MulMag(Abs(a), Abs(b))

\* |a| / |b| in thousandths, rounded down, for a >= 0, b > 0
DivMag(a, b) == (a \div b) * Unit + (((a % b) * Unit) \div b)

\* float quotient a / b
FDiv(a, b) == Sgn(a) * Sgn(b) * DivMag(Abs(a), Abs(b))

\* product of a float a >= 0 (thousandths) and a fine float b >= 0
\* (millionths), in thousandths
MulFine(a, b) ==
    LET a1 == a \div Unit  a0 == a % Unit
        b1 == b \div Unit  b0 == b % Unit
    IN a1 * b1 + ((a1 * b0 + a0 * b1 + ((a0 * b0) \div Unit)) \div Unit)

\* Heron's iteration downward from x >= sqrt(k): the largest r with r * r <= k
RECURSIVE SqrtSearch(_, _)
SqrtSearch(k, x) ==
    LET y == (x + (k \div x)) \div 2
    IN IF y >= x THEN x ELSE SqrtSearch(k, y)

\* integer square root of 0 <= k < 2^31
ISqrt(k) ==
    IF k < 2 THEN k
    ELSE SqrtSearch(k, IF k < 1024 THEN 32
                       ELSE IF k < 65536 THEN 256
                       ELSE IF k < 4194304 THEN 2048
                       ELSE IF k < 268435456 THEN 16384
                       ELSE 46340)

\* float square root of a float a >= 0; the resolution follows the magnitude
FSqrt(a) ==
    IF a < 2000000 THEN ISqrt(a * Unit)
    ELSE IF a < 200000000 THEN ISqrt(a * 10) * 10
    ELSE ISqrt(a \div 10) * 100

---------------------------------------------------------------------------
(* pygame.Vector2 *)

Vector2(x, y) == << x, y >>
VSub(a, b) == << a[1] - b[1], a[2] - b[2] >>
VAdd(a, b) == << a[1] + b[1], a[2] + b[2] >>
VScale(a, f) == << FMul(a[1], f), FMul(a[2], f) >>
length_squared(v) == FMul(v[1], v[1]) + FMul(v[2], v[2])
length(v) == FSqrt(length_squared(v))
distance_squared_to(a, b) == length_squared(VSub(b, a))

\* v / |v|, for |v| > 0
normalize_ip(v) == LET l == length(v) IN << FDiv(v[1], l), FDiv(v[2], l) >>

\* v * (new_length / |v|), for |v| > 0
scale_to_length(v, new_length) ==
    LET fraction == FDiv(new_length, length(v))
    IN << FMul(v[1], fraction), FMul(v[2], fraction) >>

\* Python's round() of a float: to the nearest integer, ties to even
Round(a) ==
    LET m == Abs(a)
        q == m \div Unit
        r == m % Unit
        up == (2 * r > Unit) \/ (2 * r = Unit /\ q % 2 = 1)
    IN Sgn(a) * (IF up THEN q + 1 ELSE q)

---------------------------------------------------------------------------
(* Random draws *)

randint(a, b) == a .. b

\* ceil(a / b) for integers a >= 0, b > 0
Ceil(a, b) == (a + b - 1) \div b

\* what random_color() may draw for each channel
random_color == [ r |-> randint(0, 255), g |-> randint(0, 255), b |-> randint(0, 255) ]

\* random_position with the margin kept on the near side only
random_position_near_margin ==
    LET x_margin == Ceil(SCREEN_WIDTH, 10)
        y_margin == Ceil(SCREEN_HEIGHT, 10)
    IN [ x |-> randint(x_margin, SCREEN_WIDTH),
         y |-> randint(y_margin, SCREEN_HEIGHT) ]

\* what random_position() may draw for each coordinate
random_position ==
    LET x_margin == Ceil(SCREEN_WIDTH, 10)
        y_margin == Ceil(SCREEN_HEIGHT, 10)
    IN [ x |-> randint(x_margin, SCREEN_WIDTH - x_margin),
         y |-> randint(y_margin, SCREEN_HEIGHT - y_margin) ]

\* the integers random_mass() may draw, and what it makes of one
random_mass_draw == randint(1000, 4000)
random_mass(n, mass) == FDiv(F(mass * 4), F(n))

size_from_mass(mass) == Max2(FDiv(mass, F(50)), F(MIN_VISIBLE_SIZE))

\* range(n) of Python, counted from 1
Range(n) == 1 .. n

\* sorted(seq, reverse=True)
RECURSIVE InsertDesc(_, _)
InsertDesc(x, seq) ==
    IF seq = << >> THEN << x >>
    ELSE IF x >= Head(seq) THEN << x >> \o seq
    ELSE << Head(seq) >> \o InsertDesc(x, Tail(seq))

RECURSIVE SortedDesc(_)
SortedDesc(seq) ==
    IF seq = << >> THEN << >> ELSE InsertDesc(Head(seq), SortedDesc(Tail(seq)))

RECURSIVE SeqMax(_)
SeqMax(seq) ==
    IF Len(seq) = 1 THEN seq[1] ELSE Max2(Head(seq), SeqMax(Tail(seq)))

\* max(seq, default=0): never raises
PyMaxDefault(seq) == IF Len(seq) = 0 THEN << 0 >> ELSE << SeqMax(seq) >>

\* max(seq): << the maximum >>, or << >> when max() raises ValueError (an
\* empty sequence)
PyMax(seq) == IF Len(seq) = 0 THEN << >> ELSE << SeqMax(seq) >>

\* Samples of what one construction of State draws at random: for each
\* star an integer mass, a position and a color.  The samples hold
\* coincident stars, stars one unit apart, stars nearer than the minimal
\* distance and stars far apart, and draws that randint cannot return.
A == << 128, 72 >>
B == << 129, 72 >>
C == << 140, 81 >>
D == << 1152, 648 >>
E == << 428, 72 >>
Red == << 255, 0, 0 >>
Grey == << 128, 128, 128 >>

Sample1 ==
    { [ mass |-> << 1000 >>, position |-> << A >>, color |-> << Red >> ],
      [ mass |-> << 4000 >>, position |-> << D >>, color |-> << Grey >> ],
      [ mass |-> << 999 >>, position |-> << A >>, color |-> << Red >> ],
      [ mass |-> << 4001 >>, position |-> << A >>, color |-> << Red >> ],
      [ mass |-> << 1000 >>, position |-> << << 127, 72 >> >>, color |-> << Red >> ],
      [ mass |-> << 1000 >>, position |-> << << 128, 71 >> >>, color |-> << Red >> ],
      [ mass |-> << 1000 >>, position |-> << << 1153, 648 >> >>, color |-> << Red >> ],
      [ mass |-> << 1000 >>, position |-> << << 1152, 649 >> >>, color |-> << Red >> ],
      [ mass |-> << 1000 >>, position |-> << A >>, color |-> << << 256, 0, 0 >> >> ] }

Sample2 ==
    { [ mass |-> << 1000, 4000 >>, position |-> << A, A >>, color |-> << Red, Grey >> ],
      [ mass |-> << 4000, 1000 >>, position |-> << A, B >>, color |-> << Red, Grey >> ],
      [ mass |-> << 2500, 1000 >>, position |-> << B, C >>, color |-> << Red, Grey >> ],
      [ mass |-> << 1000, 4001 >>, position |-> << A, C >>, color |-> << Red, Grey >> ],
      [ mass |-> << 1000, 1000 >>, position |-> << A, << 1153, 648 >> >>,
        color |-> << Red, Grey >> ] }

Sample3 ==
    { [ mass |-> << 1000, 4000, 2500 >>, position |-> << A, A, C >>,
        color |-> << Red, Grey, Red >> ],
      [ mass |-> << 4000, 1000, 1000 >>, position |-> << A, B, D >>,
        color |-> << Red, Grey, Red >> ],
      [ mass |-> << 1000, 1000, 1000 >>, position |-> << A, C, E >>,
        color |-> << Red, Grey, Red >> ],
      [ mass |-> << 1000, 1000, 1000 >>, position |-> << A, C, << 128, 649 >> >>,
        color |-> << Red, Grey, Red >> ] }

NoDraws == [ mass |-> << >>, position |-> << >>, color |-> << >> ]

DrawSample(n) ==
    IF n <= 0 THEN { NoDraws }
    ELSE IF n = 1 THEN Sample1
    ELSE IF n = 2 THEN Sample2
    ELSE IF n = 3 THEN Sample3
    ELSE { }

StarCounts == { -1, 0, 1, 2, DEFAULT_NUMBER_OF_STARS }
EventKinds == { "QUIT", "K_r", "K_p", "K_q", "K_a", "K_z", "K_other" }
TickSample == { 50 }

\* the draws of the samples that the generators can make
Draws(n) ==
    { d \in DrawSample(n) :
        \A i \in DOMAIN d.mass :
          /\ d.mass[i] \in random_mass_draw
          /\ d.position[i][1] \in random_position.x
          /\ d.position[i][2] \in random_position.y
          /\ d.color[i][1] \in random_color.r
          /\ d.color[i][2] \in random_color.g
          /\ d.color[i][3] \in random_color.b }

---------------------------------------------------------------------------
(* class State *)

_update_gravitation_factor(s) ==
    [ s EXCEPT !.gravitation_factor =
        [ i \in Range(s.number_of_stars) |->
            [ j \in Range(s.number_of_stars) |->
                IF i < j
                THEN LET distance_squared ==
                            distance_squared_to(s.positions[i], s.positions[j])
                     IN (GRAVITATIONAL_COEFFICIENT * Unit * Unit)
                          \div (Max2(distance_squared, s.min_distance_squared) \div Unit)
                ELSE s.gravitation_factor[i][j] ] ] ]

\* Pull skipping coincident stars only
PullUnlessCoincident(s, i, j) ==
    IF i = j THEN Vector2(0, 0)
    ELSE LET vector == VSub(s.positions[j], s.positions[i])
             distance == length(vector)
         IN IF distance <= 0 THEN Vector2(0, 0)
            ELSE scale_to_length(
                   normalize_ip(vector),
                   MulFine(s.masses[j],
                           s.gravitation_factor[Min2(i, j)][Max2(i, j)]))

\* Pull weighing the pulled star's own mass
PullByOwnMass(s, i, j) ==
    IF i = j THEN Vector2(0, 0)
    ELSE LET vector == VSub(s.positions[j], s.positions[i])
             distance == length(vector)
         IN IF distance <= F(1) THEN Vector2(0, 0)
            ELSE scale_to_length(
                   normalize_ip(vector),
                   MulFine(s.masses[i],
                           s.gravitation_factor[Min2(i, j)][Max2(i, j)]))

\* what star j adds to the acceleration of star i
Pull(s, i, j) ==
    IF i = j THEN Vector2(0, 0)
    ELSE LET vector == VSub(s.positions[j], s.positions[i])
             distance == length(vector)
         IN IF distance <= F(1) THEN Vector2(0, 0)
            ELSE scale_to_length(
                   normalize_ip(vector),
                   MulFine(s.masses[j],
                           s.gravitation_factor[Min2(i, j)][Max2(i, j)]))

RECURSIVE PullSum(_, _, _)
PullSum(s, i, j) ==
    IF j = 0 THEN Vector2(0, 0) ELSE VAdd(PullSum(s, i, j - 1), Pull(s, i, j))

_update_acceleration(s) ==
    [ s EXCEPT !.accelerations =
        [ i \in Range(s.number_of_stars) |-> PullSum(s, i, s.number_of_stars) ] ]

\* _update_velocities without the time step
_update_velocities_unscaled(s, dt) ==
    [ s EXCEPT !.velocities =
        [ i \in Range(s.number_of_stars) |->
            VAdd(s.velocities[i], s.accelerations[i]) ] ]

_update_velocities(s, dt) ==
    [ s EXCEPT !.velocities =
        [ i \in Range(s.number_of_stars) |->
            VAdd(s.velocities[i], VScale(s.accelerations[i], dt)) ] ]

_update_positions(s, dt) ==
    [ s EXCEPT !.positions =
        [ i \in Range(s.number_of_stars) |->
            VAdd(s.positions[i], VScale(s.velocities[i], dt)) ] ]

\* update with the positions integrated before the velocities
update_positions_first(s, dt) ==
    _update_acceleration(
      _update_gravitation_factor(
        _update_velocities(_update_positions(s, dt), dt)))

\* update with the velocities integrated last
update_velocities_last(s, dt) ==
    _update_velocities(
      _update_acceleration(
        _update_gravitation_factor(_update_positions(s, dt))), dt)

\* update in the documented order: the force first
update_force_first(s, dt) ==
    _update_positions(
      _update_velocities(
        _update_acceleration(_update_gravitation_factor(s)), dt), dt)

update(s, dt) ==
    _update_acceleration(
      _update_gravitation_factor(
        _update_positions(_update_velocities(s, dt), dt)))

\* State(number_of_stars) with the draws d: << object >>, or << >> when the
\* constructor raises
State__init__(n, d) ==
    LET masses == SortedDesc([ i \in DOMAIN d.mass |-> random_mass(n, d.mass[i]) ])
        sizes == [ i \in Range(Len(masses)) |-> size_from_mass(masses[i]) ]
        largest == PyMax(sizes)
    IN IF largest = << >> THEN << >>
       ELSE LET min_distance == Max2(F(10), largest[1])
                fresh ==
                  [ number_of_stars |-> n,
                    masses |-> masses,
                    sizes |-> sizes,
                    positions |->
                      [ i \in Range(n) |->
                          Vector2(F(d.position[i][1]), F(d.position[i][2])) ],
                    velocities |-> [ i \in Range(n) |-> Vector2(0, 0) ],
                    colors |-> d.color,
                    gravitation_factor |->
                      [ i \in Range(n) |-> [ j \in Range(n) |-> 0 ] ],
                    accelerations |-> [ i \in Range(n) |-> Vector2(0, 0) ],
                    min_distance_squared |-> FMul(min_distance, min_distance) ]
            IN << _update_acceleration(_update_gravitation_factor(fresh)) >>

---------------------------------------------------------------------------
(* Renderer *)

scale(position, factor) ==
    LET screen_center == Vector2(F(SCREEN_WIDTH) \div 2, F(SCREEN_HEIGHT) \div 2)
        position_from_center == VSub(position, screen_center)
        scaled_position == VScale(position_from_center, factor)
    IN VAdd(scaled_position, screen_center)

\* one circle as it reaches the drawing primitives
draw_circle(color, position, radius, aa) ==
    [ x |-> Round(position[1]), y |-> Round(position[2]),
      radius |-> Round(radius), color |-> color, outline |-> aa ]

draw_bodies(s, factor) ==
    [ i \in Range(s.number_of_stars) |->
        draw_circle(s.colors[i],
                    scale(s.positions[i], factor),
                    Max2(FMul(s.sizes[i], factor), F(MIN_VISIBLE_SIZE)),
                    ~(s.number_of_stars > AA_LIMIT)) ]

---------------------------------------------------------------------------
(* run_simulation *)

\* the loop's variables one event may change
Loop ==
    [ state |-> state, running |-> running, paused |-> paused,
      scale_factor |-> scale_factor ]

\* the body of the for loop over the events, for one event, which is a QUIT
\* event or the press of one key; d is what a construction of State draws
HandleEvent(l, event, d) ==
    IF event = "QUIT" THEN [ l EXCEPT !.running = FALSE ]
    ELSE IF event = "K_r"
    THEN [ l EXCEPT !.state = State__init__(number_of_stars, d),
                    !.paused = FALSE ]
    ELSE IF event = "K_p" THEN [ l EXCEPT !.paused = ~l.paused ]
    ELSE IF event = "K_q" THEN [ l EXCEPT !.running = FALSE ]
    ELSE IF event = "K_a"
    THEN [ l EXCEPT !.scale_factor = FMul(l.scale_factor, 900) ]
    ELSE IF event = "K_z"
    THEN [ l EXCEPT !.scale_factor = FDiv(l.scale_factor, 900) ]
    ELSE l

\* the frame step taken whether paused or not
UpdateEveryFrame(p) == TRUE

\* the loop never leaving
LoopForever(r) == TRUE

\* line 214
UpdateThisFrame(p) == ~p

\* line 190
LoopAgain(r) == r

Init ==
    /\ pc = "start"
    /\ number_of_stars \in StarCounts
    /\ state = << >>
    /\ running = TRUE
    /\ paused = FALSE
    /\ dt_in_s = 0
    /\ scale_factor = F(1)
    /\ screen = << >>
    /\ iterations = 0
    /\ handled = 0
    /\ zooms = 0
    /\ resets = 0
    /\ quit_seen = FALSE
    /\ quit_iteration = 0
    /\ updates_after_quit = 0
    /\ poll = << >>
    /\ frame = << >>
    /\ born = << >>
    /\ reference = << >>

\* line 184: state = State(number_of_stars)
Construct ==
    /\ pc = "start"
    /\ \E d \in Draws(number_of_stars) :
         \E made \in { State__init__(number_of_stars, d) } :
            /\ state' = made
            /\ born' = made
            /\ reference' = made
            /\ pc' = IF made = << >> THEN "error" ELSE "poll"
    /\ UNCHANGED << number_of_stars, running, paused, dt_in_s, scale_factor,
                    screen, iterations, handled, zooms, resets, quit_seen,
                    quit_iteration, updates_after_quit, poll, frame >>

\* line 193: pygame.event.get() returns a batch of events
PollEvents ==
    /\ pc = "poll"
    /\ iterations < MaxIterations
    /\ iterations' = iterations + 1
    /\ handled' = 0
    /\ poll' = << >>
    /\ pc' = "events"
    /\ UNCHANGED << number_of_stars, state, running, paused, dt_in_s,
                    scale_factor, screen, zooms, resets, quit_seen,
                    quit_iteration, updates_after_quit, frame, born, reference >>

\* lines 194-212: the next event of the batch
NextEvent ==
    /\ pc = "events"
    /\ handled < MaxBatch
    /\ \E event \in EventKinds :
         /\ event \in { "K_a", "K_z" } => zooms < MaxZooms
         /\ event = "K_r" => resets < MaxResets
         /\ \E d \in IF event = "K_r" THEN Draws(number_of_stars) ELSE { NoDraws } :
              \E l \in { HandleEvent(Loop, event, d) } :
                 /\ state' = l.state
                 /\ running' = l.running
                 /\ paused' = l.paused
                 /\ scale_factor' = l.scale_factor
                 /\ born' = IF event = "K_r" THEN l.state ELSE born
                 /\ reference' = IF event = "K_r" THEN l.state ELSE reference
         /\ zooms' = IF event \in { "K_a", "K_z" } THEN zooms + 1 ELSE zooms
         /\ resets' = IF event = "K_r" THEN resets + 1 ELSE resets
         /\ quit_seen' = (quit_seen \/ event \in { "QUIT", "K_q" })
         /\ quit_iteration' = IF event \in { "QUIT", "K_q" } /\ ~quit_seen
                              THEN iterations ELSE quit_iteration
         /\ poll' = << [ event |-> event, paused |-> paused, running |-> running,
                         scale_factor |-> scale_factor ] >>
    /\ handled' = handled + 1
    /\ UNCHANGED << pc, number_of_stars, dt_in_s, screen, iterations,
                    updates_after_quit, frame >>

\* lines 214-219, the batch exhausted, not paused: update, then fill, draw
\* and flip
UpdateAndDraw ==
    /\ pc = "events"
    /\ UpdateThisFrame(paused)
    /\ state' = << update(state[1], dt_in_s) >>
    /\ screen' = draw_bodies(state'[1], scale_factor)
    /\ reference' = << update_force_first(reference[1], dt_in_s) >>
    /\ updates_after_quit' = IF quit_seen THEN updates_after_quit + 1
                             ELSE updates_after_quit
    /\ frame' = << [ dt |-> dt_in_s, paused |-> paused, state |-> state[1],
                     screen |-> screen ] >>
    /\ poll' = << >>
    /\ handled' = 0
    /\ pc' = "tick"
    /\ UNCHANGED << number_of_stars, running, paused, dt_in_s, scale_factor,
                    iterations, zooms, resets, quit_seen, quit_iteration, born >>

\* line 214, the batch exhausted, paused: nothing
SkipFrame ==
    /\ pc = "events"
    /\ ~UpdateThisFrame(paused)
    /\ frame' = << [ dt |-> dt_in_s, paused |-> paused, state |-> state[1],
                     screen |-> screen ] >>
    /\ poll' = << >>
    /\ handled' = 0
    /\ pc' = "tick"
    /\ UNCHANGED << number_of_stars, state, running, paused, dt_in_s,
                    scale_factor, screen, iterations, zooms, resets, quit_seen,
                    quit_iteration, updates_after_quit, born, reference >>

\* line 221, and the test of the while loop at line 190
ClockTick ==
    /\ pc = "tick"
    /\ \E ms \in TickSample : dt_in_s' = FDiv(F(ms), F(MS_PER_S))
    /\ pc' = IF LoopAgain(running) THEN "poll" ELSE "exit"
    /\ UNCHANGED << number_of_stars, state, running, paused, scale_factor,
                    screen, iterations, handled, zooms, resets, quit_seen,
                    quit_iteration, updates_after_quit, poll, frame, born,
                    reference >>

\* line 223: pygame.quit()
Quit ==
    /\ pc = "exit"
    /\ pc' = "done"
    /\ UNCHANGED << number_of_stars, state, running, paused, dt_in_s,
                    scale_factor, screen, iterations, handled, zooms, resets,
                    quit_seen, quit_iteration, updates_after_quit, poll, frame,
                    born, reference >>

Next ==
    \/ Construct
    \/ PollEvents
    \/ NextEvent
    \/ UpdateAndDraw
    \/ SkipFrame
    \/ ClockTick
    \/ Quit

Spec == Init /\ [][Next]_vars

---------------------------------------------------------------------------
(* What the claims speak of *)

\* the frame step just taken called State.update
Updated == pc = "tick" /\ frame # << >> /\ ~frame[1].paused

\* the frame step just taken was skipped
Skipped == pc = "tick" /\ frame # << >> /\ frame[1].paused

\* G / max(distance squared, min_distance_squared) from the positions of s
FactorOf(s, i, j) ==
    LET dx == s.positions[j][1] - s.positions[i][1]
        dy == s.positions[j][2] - s.positions[i][2]
        d2 == FMul(dx, dx) + FMul(dy, dy)
        clamped == IF d2 < s.min_distance_squared THEN s.min_distance_squared ELSE d2
    IN (GRAVITATIONAL_COEFFICIENT * Unit * Unit) \div (clamped \div Unit)

\* s holds the pair factors and accelerations of its own positions
Consistent(s) ==
    /\ \A i, j \in Range(s.number_of_stars) :
         i < j => s.gravitation_factor[i][j] = FactorOf(s, i, j)
    /\ \A i \in Range(s.number_of_stars) :
         s.accelerations[i] = PullSum(s, i, s.number_of_stars)

\* the State has just been constructed (by line 184 or by the R key) or
\* updated: every State the program holds is first held in such a state
Fresh ==
    /\ state # << >>
    /\ \/ Updated
       \/ pc = "poll" /\ iterations = 0
       \/ pc = "events" /\ poll # << >> /\ poll[1].event = "K_r"

Moving(s) == \E i \in Range(s.number_of_stars) : s.velocities[i] # Vector2(0, 0)

\* C1: after construction and after every update, every pair factor and
\* every acceleration is the one computed from the current positions.
C1_ConsistentAfterUpdate == Fresh => Consistent(state[1])

\* C1 witness: an update with dt > 0 has moved three stars already moving
\* and changed a pair factor
C1_Witness ==
    /\ Updated
    /\ frame[1].dt > 0
    /\ Moving(frame[1].state)
    /\ state[1].number_of_stars = 3
    /\ state[1].positions # frame[1].state.positions
    /\ state[1].gravitation_factor # frame[1].state.gravitation_factor

\* C2 as stated: one update is factor refresh, acceleration accumulation,
\* velocity integration, position integration, in this order.
C2_DocumentedOrder ==
    Updated => state[1] = update_force_first(frame[1].state, frame[1].dt)

\* C2 as amended: one update integrates the velocities with the
\* accelerations the State held when the call began, then the positions
\* with the new velocities, then refreshes the pair factors and the
\* accelerations from the new positions.
C2_CodeOrder ==
    Updated =>
      LET old == frame[1].state
          new == state[1]
          dt == frame[1].dt
      IN /\ \A i \in Range(new.number_of_stars) :
              /\ new.velocities[i] =
                   VAdd(old.velocities[i], VScale(old.accelerations[i], dt))
              /\ new.positions[i] =
                   VAdd(old.positions[i], VScale(new.velocities[i], dt))
         /\ Consistent(new)

\* C2 witness: an update of moving stars that has changed velocities,
\* positions and accelerations
C2_Witness ==
    /\ Updated
    /\ frame[1].dt > 0
    /\ Moving(frame[1].state)
    /\ state[1].velocities # frame[1].state.velocities
    /\ state[1].positions # frame[1].state.positions
    /\ state[1].accelerations # frame[1].state.accelerations

\* C4: update(state, 0) changes no position and no velocity, leaves the
\* pair factors and accelerations those of the positions, and a second
\* update(state, 0) changes nothing more; the loop's own updates with dt = 0
\* behave so.
C4_ZeroStep ==
    /\ Fresh =>
         LET s == state[1]
             u == update(s, 0)
         IN /\ u.positions = s.positions
            /\ u.velocities = s.velocities
            /\ Consistent(u)
            /\ update(u, 0) = u
    /\ Updated /\ frame[1].dt = 0 =>
         /\ state[1].positions = frame[1].state.positions
         /\ state[1].velocities = frame[1].state.velocities

\* C4 witness: moving, accelerated stars, whose first update by the loop
\* had dt = 0
C4_Witness ==
    /\ Updated
    /\ iterations > 1
    /\ Moving(state[1])
    /\ \E i \in Range(state[1].number_of_stars) :
         state[1].accelerations[i] # Vector2(0, 0)

\* star j is more than one unit away from star i
Apart(s, i, j) ==
    LET dx == s.positions[j][1] - s.positions[i][1]
        dy == s.positions[j][2] - s.positions[i][2]
    IN FSqrt(FMul(dx, dx) + FMul(dy, dy)) > F(1)

\* the pull of star j on star i, computed with no test of the distance
DirectPull(s, i, j) ==
    scale_to_length(
      normalize_ip(VSub(s.positions[j], s.positions[i])),
      MulFine(s.masses[j], s.gravitation_factor[Min2(i, j)][Max2(i, j)]))

RECURSIVE ApartSum(_, _, _)
ApartSum(s, i, j) ==
    IF j = 0 THEN Vector2(0, 0)
    ELSE VAdd(ApartSum(s, i, j - 1),
              IF j # i /\ Apart(s, i, j) THEN DirectPull(s, i, j)
              ELSE Vector2(0, 0))

\* C5: a star at distance <= 1 adds nothing to an acceleration: each
\* acceleration is the sum of the pulls of the stars more than one unit
\* away; two coincident stars alone have acceleration (0, 0); and every
\* vector that is normalized or rescaled has a length above zero.
C5_DegenerateSkip ==
    Fresh =>
      LET s == state[1]
          n == s.number_of_stars
      IN /\ \A i \in Range(n) : s.accelerations[i] = ApartSum(s, i, n)
         /\ \A i, j \in Range(n) :
              i # j /\ ~Apart(s, i, j) => Pull(s, i, j) = Vector2(0, 0)
         /\ \A i, j \in Range(n) :
              i # j /\ Apart(s, i, j) =>
                /\ length(VSub(s.positions[j], s.positions[i])) > 0
                /\ length(normalize_ip(VSub(s.positions[j], s.positions[i]))) > 0
         /\ n = 2 /\ s.positions[1] = s.positions[2] =>
              /\ s.accelerations[1] = Vector2(0, 0)
              /\ s.accelerations[2] = Vector2(0, 0)

\* C5 witness: three stars, two of them at most one unit apart, pulled by
\* the third, after an update
C5_Witness ==
    /\ Updated
    /\ frame[1].dt > 0
    /\ state[1].number_of_stars = 3
    /\ ~Apart(state[1], 1, 2)
    /\ state[1].accelerations[1] # Vector2(0, 0)

\* C6: a star count <= 0 ends in an error before any State exists and
\* before the loop polls; no State without stars is ever held.
C6_RejectsNonPositive ==
    /\ number_of_stars <= 0 =>
         /\ state = << >>
         /\ pc \in { "start", "error" }
         /\ iterations = 0
         /\ screen = << >>
    /\ state # << >> => state[1].number_of_stars >= 1
    /\ pc = "error" => number_of_stars <= 0

\* C6 witness: the constructor has raised for a star count <= 0
C6_Witness == pc = "error" /\ number_of_stars <= 0 /\ state = << >>

NonIncreasing(seq) == \A i \in 1 .. Len(seq) - 1 : seq[i] >= seq[i + 1]

SixOfLength(s, n) ==
    /\ Len(s.masses) = n
    /\ Len(s.sizes) = n
    /\ Len(s.positions) = n
    /\ Len(s.velocities) = n
    /\ Len(s.accelerations) = n
    /\ Len(s.colors) = n

\* C7: a State as constructed holds n >= 1 masses, sizes, positions,
\* velocities, accelerations and colors, its masses in non-increasing
\* order, its positions within the inset rectangle; the lengths stay n
\* after updates.
C7_GeneratorShape ==
    /\ born # << >> =>
         LET s == born[1]
         IN /\ s.number_of_stars = number_of_stars
            /\ number_of_stars >= 1
            /\ SixOfLength(s, number_of_stars)
            /\ NonIncreasing(s.masses)
            /\ \A i \in Range(number_of_stars) :
                 /\ s.positions[i][1] >= F(Ceil(SCREEN_WIDTH, 10))
                 /\ s.positions[i][1] <= F(SCREEN_WIDTH - Ceil(SCREEN_WIDTH, 10))
                 /\ s.positions[i][2] >= F(Ceil(SCREEN_HEIGHT, 10))
                 /\ s.positions[i][2] <= F(SCREEN_HEIGHT - Ceil(SCREEN_HEIGHT, 10))
    /\ state # << >> =>
         /\ SixOfLength(state[1], number_of_stars)
         /\ NonIncreasing(state[1].masses)

\* C7 witness: three stars drawn with unsorted masses, one on the edge of
\* the inset rectangle, after updates
C7_Witness ==
    /\ Updated
    /\ iterations = MaxIterations
    /\ number_of_stars = 3
    /\ born[1].masses[1] > born[1].masses[3]
    /\ \E i \in Range(3) : born[1].positions[i] = Vector2(F(1152), F(648))

C9_QuitTerminal ==
    /\ quit_seen => ~running
    /\ quit_seen => iterations = quit_iteration
    /\ quit_seen => updates_after_quit <= 1
    /\ quit_seen /\ pc \in { "tick", "exit", "done" } =>
         updates_after_quit = IF frame[1].paused THEN 0 ELSE 1
    /\ pc \in { "exit", "done" } => quit_seen

\* C9 witness: R handled after Q in one batch, in a later iteration
C9_Witness ==
    /\ pc = "events"
    /\ poll # << >>
    /\ poll[1].event = "K_r"
    /\ ~poll[1].running
    /\ quit_seen
    /\ iterations > 1
    /\ ~running

\* C10: after every call the code's order and the documented order, run
\* from the same constructed State with the same timesteps, hold the same
\* positions and velocities; the documented order's accelerations and pair
\* factors are those of the positions before the call.
C10_SameKinematics ==
    /\ state # << >> =>
         /\ reference[1].positions = state[1].positions
         /\ reference[1].velocities = state[1].velocities
    /\ Updated =>
         /\ reference[1].accelerations = frame[1].state.accelerations
         /\ reference[1].gravitation_factor = frame[1].state.gravitation_factor

\* C10 witness: after an update with dt = 0 and two with dt > 0 the two
\* engines hold the same moving stars and different accelerations
C10_Witness ==
    /\ Updated
    /\ frame[1].dt > 0
    /\ iterations > 2
    /\ Moving(frame[1].state)
    /\ Moving(state[1])
    /\ reference[1].accelerations # state[1].accelerations

---------------------------------------------------------------------------
(* Two stars set up by hand, and one update of them.  State draws integer  *)
(* masses and integer positions; here they are given, also outside what    *)
(* the generators draw: with two stars the integer mass m makes the mass   *)
(* m * 4 / 2.                                                              *)

\* the integer masses, where the second star is (the first is at (0, 0)),
\* and the time step in milliseconds; the nearest stars are given the
\* larger masses and the short steps only
TwoBodyCases ==
    ({ 500, 1000, 2000 } \X { 500, 1000, 2000 }
       \X { << 100, 0 >>, << 0, -50 >>, << 30, 40 >>, << -300, 400 >>, << 60, 11 >> }
       \X { 0, 50, 1000 })
    \cup ({ 1000, 2000 } \X { 1000, 2000 }
            \X { << 2, 0 >>, << 1, 0 >>, << 11, 9 >>, << 0, 0 >> }
            \X { 0, 50 })

InitTwoBody ==
    /\ pc = "events"
    /\ number_of_stars = 2
    /\ \E case \in TwoBodyCases :
         /\ state = State__init__(2, [ mass |-> << case[1], case[2] >>,
                                      position |-> << << 0, 0 >>, case[3] >>,
                                      color |-> << Red, Grey >> ])
         /\ dt_in_s = FDiv(F(case[4]), F(MS_PER_S))
    /\ born = state
    /\ reference = state
    /\ running = TRUE
    /\ paused = FALSE
    /\ scale_factor = F(1)
    /\ screen = << >>
    /\ iterations = 1
    /\ handled = 0
    /\ zooms = 0
    /\ resets = 0
    /\ quit_seen = FALSE
    /\ quit_iteration = 0
    /\ updates_after_quit = 0
    /\ poll = << >>
    /\ frame = << >>

SpecTwoBody == InitTwoBody /\ [][UpdateAndDraw]_vars

\* the distance between the two stars of s
Separation(s) == length(VSub(s.positions[2], s.positions[1]))

\* G * mass / max(d * d, min_distance_squared), for the float distance d
Analytic(s, mass, d) ==
    MulFine(mass,
            (GRAVITATIONAL_COEFFICIENT * Unit * Unit)
              \div (Max2(FMul(d, d), s.min_distance_squared) \div Unit))

\* a and b differ by less than one part in a hundred and five thousandths
Close(a, b) == Abs(a - b) * 100 <= Max2(Abs(a), Abs(b)) + 500

\* the acceleration a, at from, points at to
PointsAt(a, from, to) ==
    LET u == normalize_ip(VSub(to, from))
    IN /\ FMul(a[1], u[1]) + FMul(a[2], u[2]) > 0
       /\ Abs(FMul(a[1], u[2]) - FMul(a[2], u[1])) * 100 <= length(a) + 500

\* the stars of s are accelerated as the analytic law says for the distance d
Newtonian(s, d) ==
    /\ Close(length(s.accelerations[1]), Analytic(s, s.masses[2], d))
    /\ Close(length(s.accelerations[2]), Analytic(s, s.masses[1], d))
    /\ PointsAt(s.accelerations[1], s.positions[1], s.positions[2])
    /\ PointsAt(s.accelerations[2], s.positions[2], s.positions[1])

\* the scenario: masses 1000 and 1000 at (0, 0) and (100, 0), at rest, dt = 1
Scenario ==
    /\ Updated
    /\ frame[1].dt = F(1)
    /\ frame[1].state.masses = << F(1000), F(1000) >>
    /\ frame[1].state.positions = << Vector2(0, 0), Vector2(F(100), 0) >>
    /\ frame[1].state.velocities = << Vector2(0, 0), Vector2(0, 0) >>

\* C3 as stated: after update(dt) of two stars at rest, d > 1 apart when
\* update is called, each acceleration has the magnitude
\* G * mass of the other / max(d * d, min_distance_squared) and points at the
\* other star; in the scenario star 0 is accelerated in the positive x
\* direction and star 1 by the opposite vector.
C3_AsStated ==
    /\ Updated /\ Separation(frame[1].state) > F(1) =>
         Newtonian(state[1], Separation(frame[1].state))
    /\ Scenario =>
         /\ state[1].accelerations[1][1] > 0
         /\ state[1].accelerations[2] =
              Vector2(-state[1].accelerations[1][1], -state[1].accelerations[1][2])

\* C3 as amended: the accelerations held after update(dt) are those of the
\* separation d' the stars have after the call's position integration: for
\* d' > 1 each has the magnitude
\* G * mass of the other / max(d' * d', min_distance_squared) and points at
\* the other star's new position.  In the scenario the call moves the
\* stars with the accelerations (90, 0) and (-90, 0) held from before, to
\* (90, 0) and (10, 0); star 0 is then accelerated in the negative x
\* direction and star 1 by the opposite vector, both with magnitude 140.625.
C3_AfterTheMove ==
    /\ Updated /\ Separation(state[1]) > F(1) =>
         Newtonian(state[1], Separation(state[1]))
    /\ Scenario =>
         /\ frame[1].state.accelerations = << Vector2(F(90), 0), Vector2(-F(90), 0) >>
         /\ state[1].velocities = << Vector2(F(90), 0), Vector2(-F(90), 0) >>
         /\ state[1].positions = << Vector2(F(90), 0), Vector2(F(10), 0) >>
         /\ state[1].accelerations = << Vector2(-140625, 0), Vector2(140625, 0) >>

\* C3 witness: the scenario, after its update
C3_Witness == Scenario /\ Separation(state[1]) > F(1)

=============================================================================
